---- MODULE Spec2Model ----
(***************************************************************************)
(* Model of api/index.py: the cookie materializer (env_to_cookies,         *)
(* env_to_cookies_from_env) and the POST /download handler                 *)
(* (download_file) with the process working directory, the file tree       *)
(* under the service directory and the event loop that runs the handlers.  *)
(*                                                                         *)
(* Text is a sequence of one-character strings, a path is a sequence of    *)
(* names, and every path is written relative to the directory the service  *)
(* was started in (ServiceDir).                                            *)
(***************************************************************************)
EXTENDS Integers, Sequences, FiniteSets, TLC

\* ---------------------------------------------------------------- bounds
NumReq == 2
TicksPerSecond == 2
MaxLen == 4

\* the clock runs through one full second and into the next
MaxTime == TicksPerSecond

VARIABLES now, cwd, dirs, fs, environ, req, hist, resp, running, overlap,
          blob, target, cres

vars == <<now, cwd, dirs, fs, environ, req, hist, resp, running, overlap,
          blob, target, cres>>
downloadVars == <<now, cwd, dirs, fs, environ, req, hist, resp, running, overlap>>
cookieVars == <<blob, target, cres>>

\* ------------------------------------------------------ literals of the code
DOWNLOADS_DIR == <<"d", "o", "w", "n", "l", "o", "a", "d", "s">>
CookiesTxt == <<"c", "o", "o", "k", "i", "e", "s", ".", "t", "x", "t">>
AppleMusic == <<"A", "p", "p", "l", "e", " ", "M", "u", "s", "i", "c">>
DefaultSpaceUrl == <<"h", "t", "t", "p", "s", ":", "/", "/", "t", "e", "c", "u", "t", "s", "-", "t", "e", "s", "t", "i", "n", "g", ".", "h", "f", ".", "s", "p", "a", "c", "e">>
FilesSegment == <<"/", "f", "i", "l", "e", "s", "/">>
CookiesKey == <<"C", "O", "O", "K", "I", "E", "S">>
Marker == <<"=", "\"">>
ServiceDir == <<>>

\* ------------------------------------------------------------ text helpers
Last(s) == s[Len(s)]

IsPrefix(p, q) == Len(p) <= Len(q) /\ SubSeq(q, 1, Len(p)) = p

HasMarker(s) == \E i \in 1..(Len(s) - 1) : SubSeq(s, i, i + 1) = Marker

\* str.split('="', 1)[1]
AfterMarker(s) ==
    LET i == CHOOSE k \in 1..(Len(s) - 1) :
                 /\ SubSeq(s, k, k + 1) = Marker
                 /\ \A j \in 1..(k - 1) : SubSeq(s, j, j + 1) # Marker
    IN  SubSeq(s, i + 2, Len(s))

\* str.strip(c): every leading and every trailing c goes
Strip(s, c) ==
    IF \A i \in 1..Len(s) : s[i] = c THEN <<>>
    ELSE LET lo == CHOOSE i \in 1..Len(s) :
                       s[i] # c /\ \A j \in 1..(i - 1) : s[j] = c
             hi == CHOOSE i \in 1..Len(s) :
                       s[i] # c /\ \A j \in (i + 1)..Len(s) : s[j] = c
         IN  SubSeq(s, lo, hi)

\* str.replace('\\n', '\n'): left to right, non-overlapping
RECURSIVE ReplaceEscapes(_)
ReplaceEscapes(s) ==
    IF Len(s) < 2 THEN s
    ELSE IF s[1] = "\\" /\ s[2] = "n"
         THEN <<"\n">> \o ReplaceEscapes(SubSeq(s, 3, Len(s)))
         ELSE <<s[1]>> \o ReplaceEscapes(Tail(s))

\* ------------------------------------------------------ cookie materializer
NoFile == [exists |-> FALSE, content |-> <<>>]
FileOf(c) == [exists |-> TRUE, content |-> c]

\* a variant that opens (and so truncates) the file before looking at the blob
env_to_cookies_open_first(env_content, old) ==
    IF ~HasMarker(env_content)
    THEN [ok |-> FALSE, file |-> FileOf(<<>>),
          error |-> "Error converting to cookie file: Invalid env content format"]
    ELSE [ok |-> TRUE,
          file |-> FileOf(ReplaceEscapes(Strip(AfterMarker(env_content), "\""))),
          error |-> ""]

\* env_to_cookies(env_content, output_file); old is the file before the call
env_to_cookies(env_content, old) ==
    IF ~HasMarker(env_content)
    THEN [ok |-> FALSE, file |-> old,
          error |-> "Error converting to cookie file: Invalid env content format"]
    ELSE [ok |-> TRUE,
          file |-> FileOf(ReplaceEscapes(Strip(AfterMarker(env_content), "\""))),
          error |-> ""]

\* f'COOKIES="{env_content}"'
EnvBlob(env_content) == CookiesKey \o Marker \o env_content \o <<"\"">>

\* env_to_cookies_from_env(output_file); cookies is os.getenv('COOKIES'),
\* the empty text when the variable is unset
env_to_cookies_from_env(cookies, old) ==
    IF cookies = <<>>
    THEN [ok |-> FALSE, file |-> old,
          error |-> "Error converting to cookie file: COOKIES not found in environment variables"]
    ELSE LET res == env_to_cookies(EnvBlob(cookies), old)
         IN  IF res.ok THEN res
             ELSE [ok |-> FALSE, file |-> res.file,
                   error |-> "Error converting to cookie file: Error converting to cookie file: Invalid env content format"]

\* ------------------------------------------------------------ time and names
Digits == <<"0", "1", "2", "3", "4", "5", "6", "7", "8", "9">>
TwoDigits(n) == <<Digits[((n \div 10) % 10) + 1], Digits[(n % 10) + 1]>>
DatePrefix == <<"2", "0", "2", "4", "0", "1", "0", "1", "_", "0", "0", "0", "0">>

\* a variant that keeps the sub-second part of the clock in the name
StrftimeTicks(t) ==
    DatePrefix \o TwoDigits(t \div TicksPerSecond) \o <<".">> \o TwoDigits(t % TicksPerSecond)

\* datetime.now().strftime("%Y%m%d_%H%M%S"); t counts ticks of 1/TicksPerSecond s
Strftime(t) == DatePrefix \o TwoDigits(t \div TicksPerSecond)

\* urllib.parse.quote(filename): unreserved characters and "/" stay, the rest
\* becomes "%" and two hex digits
AlwaysSafe == {"a", "b", "c", "d", "e", "f", "g", "h", "i", "j", "k", "l", "m", "n", "o", "p", "q", "r", "s", "t", "u", "v", "w", "x", "y", "z", "A", "B", "C", "D", "E", "F", "G", "H", "I", "J", "K", "L", "M", "N", "O", "P", "Q", "R", "S", "T", "U", "V", "W", "X", "Y", "Z", "0", "1", "2", "3", "4", "5", "6", "7", "8", "9", "_", ".", "-", "~"}
PercentHex(c) ==
    CASE c = " "  -> <<"2", "0">>
      [] c = "\"" -> <<"2", "2">>
      [] c = "%"  -> <<"2", "5">>
      [] c = ":"  -> <<"3", "A">>
      [] c = "="  -> <<"3", "D">>
      [] c = "\\" -> <<"5", "C">>
      [] c = "\n" -> <<"0", "A">>
RECURSIVE quote(_)
quote(s) ==
    IF s = <<>> THEN <<>>
    ELSE (IF s[1] \in AlwaysSafe \cup {"/"} THEN <<s[1]>>
          ELSE <<"%">> \o PercentHex(s[1])) \o quote(Tail(s))

LStrip(s, c) ==
    IF \A i \in 1..Len(s) : s[i] = c THEN <<>>
    ELSE LET lo == CHOOSE i \in 1..Len(s) :
                       s[i] # c /\ \A j \in 1..(i - 1) : s[j] = c
         IN  SubSeq(s, lo, Len(s))

\* os.path.splitext(filename)[1]: from the last dot on, unless only dots precede it
SplitExt(name) ==
    IF \A i \in 1..Len(name) : name[i] # "." THEN <<>>
    ELSE LET d == CHOOSE i \in 1..Len(name) :
                      name[i] = "." /\ \A j \in (i + 1)..Len(name) : name[j] # "."
         IN  IF \E j \in 1..(d - 1) : name[j] # "."
             THEN SubSeq(name, d, Len(name)) ELSE <<>>

\* os.getenv("SPACE_URL", "https://tecuts-testing.hf.space")
SpaceUrl(e) == IF e.SPACE_URL.isset THEN e.SPACE_URL.value ELSE DefaultSpaceUrl

\* FileInfo(filename=..., download_url=..., file_type=...)
FileInfo(filename, timestamp, space_url) ==
    [filename |-> filename,
     download_url |-> space_url \o FilesSegment \o timestamp \o <<"/">> \o quote(filename),
     file_type |-> LStrip(SplitExt(filename), ".")]

\* ------------------------------------------------------------------ file tree
Prefixes(p) == {SubSeq(p, 1, k) : k \in 1..Len(p)}
Under(d, p) == IsPrefix(d, p) /\ p # d

\* os.makedirs(path, exist_ok=...)
MakeDirs(ds, path, exist_ok) ==
    IF path \in ds /\ ~exist_ok THEN [ok |-> FALSE, dirs |-> ds]
    ELSE [ok |-> TRUE, dirs |-> ds \cup Prefixes(path)]

\* os.chdir(path) with a relative path
Chdir(dir, path) == dir \o path

RECURSIVE Perms(_)
Perms(S) ==
    IF S = {} THEN {<<>>}
    ELSE UNION {{<<x>> \o p : p \in Perms(S \ {x})} : x \in S}

\* os.walk(top), top-down: the files of a directory, then each subdirectory in
\* turn; the order inside a directory is the file system's, hence any order
RECURSIVE WalkSeqs(_, _, _)
RECURSIVE WalkEach(_, _, _)
WalkEach(F, D, ds) ==
    IF ds = <<>> THEN {<<>>}
    ELSE {a \o b : a \in WalkSeqs(F, D, Head(ds)), b \in WalkEach(F, D, Tail(ds))}
WalkSeqs(F, D, d) ==
    LET files == {p \in F : Len(p) = Len(d) + 1 /\ IsPrefix(d, p)}
        subs == {x \in D : Len(x) = Len(d) + 1 /\ IsPrefix(d, x)}
    IN  {f \o rest : f \in Perms(files),
                     rest \in UNION {WalkEach(F, D, o) : o \in Perms(subs)}}

Relative(dir, p) == SubSeq(p, Len(dir) + 1, Len(p))

\* lines 139-144: the candidate lists os.walk('.') can give, cookies.txt left out
AllFiles(tree, D, dir) ==
    {[i \in 1..Len(w) |-> Relative(dir, w[i])] :
        w \in {SelectSeq(v, LAMBDA p : Last(p) # CookiesTxt) :
                  v \in WalkSeqs(DOMAIN tree, D, dir)}}

\* shutil.copy2(file_path, new_path) raises: SameFileError when file_path is
\* already "./<filename>", or an I/O fault of the environment
CopyRaises(file_path, io_fail) == Len(file_path) = 1 \/ file_path \in io_fail

Copy2(tree, src, dst) ==
    [p \in DOMAIN tree \cup {dst} |-> IF p = dst THEN tree[src] ELSE tree[p]]

\* a variant whose loop stops at the first copy that fails
RECURSIVE HarvestBreak(_, _, _, _, _, _)
HarvestBreak(all_files, io_fail, tree, dir, timestamp, space_url) ==
    IF all_files = <<>> THEN [fs |-> tree, files |-> <<>>, failed |-> {}]
    ELSE LET file_path == Head(all_files)
             filename == Last(file_path)
         IN  IF CopyRaises(file_path, io_fail)
             THEN [fs |-> tree, files |-> <<>>, failed |-> {file_path}]
             ELSE LET rest == HarvestBreak(Tail(all_files), io_fail,
                                  Copy2(tree, dir \o file_path, dir \o <<filename>>),
                                  dir, timestamp, space_url)
                  IN  [fs |-> rest.fs,
                       files |-> <<FileInfo(filename, timestamp, space_url)>> \o rest.files,
                       failed |-> rest.failed]

\* lines 155-185: copy every candidate to the top level and list it
RECURSIVE Harvest(_, _, _, _, _, _)
Harvest(all_files, io_fail, tree, dir, timestamp, space_url) ==
    IF all_files = <<>> THEN [fs |-> tree, files |-> <<>>, failed |-> {}]
    ELSE LET file_path == Head(all_files)
             filename == Last(file_path)
         IN  IF CopyRaises(file_path, io_fail)
             THEN LET rest == Harvest(Tail(all_files), io_fail, tree,
                                      dir, timestamp, space_url)
                  IN  [rest EXCEPT !.failed = @ \cup {file_path}]
             ELSE LET rest == Harvest(Tail(all_files), io_fail,
                                  Copy2(tree, dir \o file_path, dir \o <<filename>>),
                                  dir, timestamp, space_url)
                  IN  [fs |-> rest.fs,
                       files |-> <<FileInfo(filename, timestamp, space_url)>> \o rest.files,
                       failed |-> rest.failed]

\* lines 188-193: every directory named "Apple Music" below dir goes, with
\* all it holds
Doomed(D, dir) == {d \in D : Under(dir, d) /\ Last(d) = AppleMusic}
Survives(D, dir, p) == \A d \in Doomed(D, dir) : ~IsPrefix(d, p)
CleanFiles(tree, D, dir) == [p \in {q \in DOMAIN tree : Survives(D, dir, q)} |-> tree[p]]
CleanDirs(D, dir) == {d \in D : Survives(D, dir, d)}

\* a variant that never raises
CheckReturnCodeNever(rc) == FALSE

\* process.check_returncode() raises CalledProcessError
CheckReturnCode(rc) == rc # 0

\* a or b on Python strings
PyOr(a, b) == IF a # "" THEN a ELSE b

\* a variant whose cleanup block leaves the directory alone
FinallyKeep(has_original, original_dir, dir) == dir

\* lines 219-221
Finally(has_original, original_dir, dir) ==
    IF has_original THEN original_dir ELSE dir

\* ------------------------------------------------------------------- inputs
Requests == 1..NumReq

\* what the external tool can leave below its working directory
SongA == <<"a", ".", "m", "4", "a">>
SongBC == <<"b", " ", "c", ".", "m", "4", "a">>
TempDir == <<"t", "e", "m", "p">>
ToolOutputs ==
    {{},
     {<<SongA>>},
     {<<AppleMusic, SongBC>>},
     {<<AppleMusic, SongBC>>, <<TempDir, SongA>>}}

\* returncode, captured stdout and stderr of subprocess.run
ToolResults ==
    {[rc |-> 0, stdout |-> "", stderr |-> ""],
     [rc |-> 1, stdout |-> "", stderr |-> ""],
     [rc |-> 1, stdout |-> "out", stderr |-> ""],
     [rc |-> 1, stdout |-> "out", stderr |-> "err"]}

\* os.environ as the handler reads it
NoSpaceUrl == [isset |-> FALSE, value |-> <<>>]
CookieValue == <<"a", "\\", "n", "b">>
Environments ==
    {[COOKIES |-> <<>>, SPACE_URL |-> NoSpaceUrl],
     [COOKIES |-> CookieValue, SPACE_URL |-> NoSpaceUrl],
     [COOKIES |-> CookieValue, SPACE_URL |-> [isset |-> TRUE, value |-> <<"h">>]]}

\* str(e) of a CalledProcessError
StrCalledProcessError == "Command returned non-zero exit status 1."

ToolData(r) == [content |-> <<>>, by |-> r]

\* the locals of a handler that is not running
IdleReq ==
    [pc |-> "idle", timestamp |-> <<>>, has_original |-> FALSE,
     original_dir |-> <<>>, tool_cwd |-> <<>>,
     rc |-> 0, stdout |-> "", stderr |-> ""]

\* a handler that has returned: its locals are gone
DoneReq == [IdleReq EXCEPT !.pc = "done"]

\* what is remembered of a request once its handler has started
NoHist == [started |-> FALSE, start |-> 0, session |-> <<>>]

NoResp ==
    [to |-> 0, status |-> 0, detail |-> <<>>, files |-> <<>>, message |-> <<>>,
     timestamp |-> <<>>, session |-> <<>>, rc |-> 0, walked |-> FALSE,
     all_files |-> <<>>, io_fail |-> {}, failed |-> {}]

\* the outcome of a call of the materializer
NoResult == [state |-> "none", ok |-> FALSE, error |-> ""]

\* ------------------------------------------------------------- POST /download
Init ==
    /\ now = 0
    /\ cwd = ServiceDir
    /\ dirs = {<<DOWNLOADS_DIR>>}
    /\ fs = <<>>
    /\ environ \in Environments
    /\ req = [r \in Requests |-> IdleReq]
    /\ hist = [r \in Requests |-> NoHist]
    /\ resp = NoResp
    /\ running = 0
    /\ overlap = {}
    /\ blob = <<>>
    /\ target = NoFile
    /\ cres = NoResult

\* download_file is a coroutine without an await: the event loop runs one
\* handler from its first line to its last before it starts another
LoopFree(r) == running = 0

\* the HTTP answer of request r, with the handler's locals it was built from
Response(r, status, detail, files, message, walked, all_files, io_fail, failed) ==
    [to |-> r, status |-> status, detail |-> detail, files |-> files,
     message |-> message, timestamp |-> req[r].timestamp,
     session |-> hist[r].session, rc |-> req[r].rc, walked |-> walked,
     all_files |-> all_files, io_fail |-> io_fail, failed |-> failed]

\* a request reaches the server and waits for the event loop; the requests
\* still in progress at that moment overlap with it
Arrive(r) ==
    /\ req[r].pc = "idle"
    /\ req' = [req EXCEPT ![r].pc = "queued"]
    /\ overlap' = overlap \cup
          {{r, s} : s \in {x \in Requests : req[x].pc \notin {"idle", "done"}}}
    /\ UNCHANGED <<now, cwd, dirs, fs, environ, hist, resp, running, cookieVars>>

\* lines 105-121: session directory, cookie file, chdir; the requests are
\* numbered in the order in which the event loop starts their handlers
Begin(r) ==
    /\ req[r].pc = "queued"
    /\ \A x \in Requests : x < r => req[x].pc = "done"
    /\ LoopFree(r)
    /\ LET timestamp == Strftime(now)
           download_subdir == <<DOWNLOADS_DIR, timestamp>>
           session == cwd \o download_subdir
           mk == MakeDirs(dirs, session, TRUE)
           cookie_path == session \o <<CookiesTxt>>
           old == IF cookie_path \in DOMAIN fs
                  THEN FileOf(fs[cookie_path].content) ELSE NoFile
           ck == env_to_cookies_from_env(environ.COOKIES, old)
           h == [started |-> TRUE, start |-> now, session |-> session]
       IN  /\ hist' = [hist EXCEPT ![r] = h]
           /\ IF ~mk.ok \/ ~ck.ok
              THEN /\ resp' = [Response(r, 500,
                                  <<"Error: ", IF mk.ok THEN ck.error ELSE "File exists">>,
                                  <<>>, <<>>, FALSE, <<>>, {}, {})
                                 EXCEPT !.timestamp = timestamp, !.session = session]
                   /\ req' = [req EXCEPT ![r] = DoneReq]
                   /\ dirs' = mk.dirs
                   /\ cwd' = Finally(FALSE, <<>>, cwd)
                   /\ UNCHANGED <<fs, running>>
              ELSE /\ req' = [req EXCEPT ![r] =
                                 [@ EXCEPT !.pc = "ready", !.timestamp = timestamp,
                                           !.has_original = TRUE, !.original_dir = cwd]]
                   /\ dirs' = mk.dirs
                   /\ fs' = [p \in DOMAIN fs \cup {cookie_path} |->
                                IF p = cookie_path
                                THEN [content |-> ck.file.content, by |-> r]
                                ELSE fs[p]]
                   /\ cwd' = Chdir(cwd, download_subdir)
                   /\ running' = r
                   /\ resp' = NoResp
    /\ UNCHANGED <<now, environ, overlap, cookieVars>>

\* lines 124-131: subprocess.run starts the tool, which inherits the
\* working directory of the process
Invoke(r) ==
    /\ req[r].pc = "ready"
    /\ req' = [req EXCEPT ![r].pc = "invoked", ![r].tool_cwd = cwd]
    /\ UNCHANGED <<now, cwd, dirs, fs, environ, hist, resp, running, overlap, cookieVars>>

\* the tool writes below its working directory and exits
ToolExit(r) ==
    /\ req[r].pc = "invoked"
    /\ \E out \in ToolOutputs, res \in ToolResults :
          LET new == {req[r].tool_cwd \o p : p \in out}
          IN  /\ fs' = [p \in DOMAIN fs \cup new |->
                           IF p \in new THEN ToolData(r) ELSE fs[p]]
              /\ dirs' = dirs \cup
                    UNION {{d \in Prefixes(p) : d # p} : p \in new}
              /\ req' = [req EXCEPT ![r].pc = "exited", ![r].rc = res.rc,
                                    ![r].stdout = res.stdout, ![r].stderr = res.stderr]
    /\ UNCHANGED <<now, cwd, environ, hist, resp, running, overlap, cookieVars>>

\* lines 133-221: check the exit status, enumerate, copy, clean up, answer
Finish(r) ==
    /\ req[r].pc = "exited"
    /\ LET q == req[r]
       IN  IF CheckReturnCode(q.rc)
           THEN /\ resp' = Response(r, 400,
                              <<"Failed to download: ",
                                PyOr(q.stderr, PyOr(q.stdout, StrCalledProcessError))>>,
                              <<>>, <<>>, FALSE, <<>>, {}, {})
                /\ cwd' = Finally(q.has_original, q.original_dir, cwd)
                /\ UNCHANGED <<dirs, fs>>
           ELSE \E all_files \in AllFiles(fs, dirs, cwd) :
                IF all_files = <<>>
                THEN /\ resp' = Response(r, 500,
                                   <<"Error: ", "No files found after download attempt">>,
                                   <<>>, <<>>, TRUE, <<>>, {}, {})
                     /\ cwd' = Finally(q.has_original, q.original_dir, cwd)
                     /\ UNCHANGED <<dirs, fs>>
                ELSE \E io_fail \in SUBSET {all_files[i] : i \in 1..Len(all_files)} :
                     /\ \A p \in io_fail : Len(p) > 1
                     /\ LET h == Harvest(all_files, io_fail, fs, cwd, q.timestamp,
                                      SpaceUrl(environ))
                        IN  /\ fs' = CleanFiles(h.fs, dirs, cwd)
                            /\ dirs' = CleanDirs(dirs, cwd)
                            /\ cwd' = Finally(q.has_original, q.original_dir,
                                              q.original_dir)
                            /\ resp' =
                                  IF h.files = <<>>
                                  THEN Response(r, 500,
                                           <<"Error: ", "Failed to process any files">>,
                                           <<>>, <<>>, TRUE, all_files, io_fail, h.failed)
                                  ELSE Response(r, 200, <<>>, h.files,
                                           <<"Successfully downloaded ",
                                             ToString(Len(h.files)), " files">>,
                                           TRUE, all_files, io_fail, h.failed)
    /\ req' = [req EXCEPT ![r] = DoneReq]
    /\ running' = 0
    /\ UNCHANGED <<now, environ, hist, overlap, cookieVars>>

\* the wall clock
Tick ==
    /\ now < MaxTime
    /\ now' = now + 1
    /\ UNCHANGED <<cwd, dirs, fs, environ, req, hist, resp, running, overlap, cookieVars>>

Next ==
    \/ \E r \in Requests : Arrive(r)
    \/ \E r \in Requests : Begin(r)
    \/ \E r \in Requests : Invoke(r)
    \/ \E r \in Requests : ToolExit(r)
    \/ \E r \in Requests : Finish(r)
    \/ Tick

Spec == Init /\ [][Next]_vars

\* ------------------------------------------- the materializer on its own
BlobChars == {"=", "\"", "\\", "n", "a"}
Blobs == UNION {[1..k -> BlobChars] : k \in 0..MaxLen}
OldContent == <<"o">>

InitCookie ==
    /\ now = 0
    /\ cwd = ServiceDir
    /\ dirs = {<<DOWNLOADS_DIR>>}
    /\ fs = <<>>
    /\ environ = [COOKIES |-> <<>>, SPACE_URL |-> NoSpaceUrl]
    /\ req = [r \in Requests |-> IdleReq]
    /\ hist = [r \in Requests |-> NoHist]
    /\ resp = NoResp
    /\ running = 0
    /\ overlap = {}
    /\ blob \in Blobs
    /\ target \in {NoFile, FileOf(OldContent)}
    /\ cres = NoResult

\* env_to_cookies(blob, target)
ConvertCookie ==
    /\ cres.state = "none"
    /\ LET res == env_to_cookies(blob, target)
       IN  /\ target' = res.file
           /\ cres' = [state |-> "direct", ok |-> res.ok, error |-> res.error]
    /\ UNCHANGED <<blob, downloadVars>>

\* env_to_cookies_from_env(target) with COOKIES holding blob
ConvertFromEnv ==
    /\ cres.state = "none"
    /\ LET res == env_to_cookies_from_env(blob, target)
       IN  /\ target' = res.file
           /\ cres' = [state |-> "from_env", ok |-> res.ok, error |-> res.error]
    /\ UNCHANGED <<blob, downloadVars>>

NextCookie == ConvertCookie \/ ConvertFromEnv

SpecCookie == InitCookie /\ [][NextCookie]_vars

\* ------------------------------------------------------------------ properties
Range(s) == {s[i] : i \in 1..Len(s)}
Second(t) == t \div TicksPerSecond
Answered == resp.to # 0

\* C1: whenever no handler is running, and so whenever a request has been
\* answered with 200, 400 or 500, the working directory of the process is the
\* directory the service started in, and every session directory was created
\* directly under the downloads root of that directory.
C1_CwdRestored ==
    /\ running = 0 => cwd = ServiceDir
    /\ Answered => cwd = ServiceDir
    /\ \A r \in Requests :
          hist[r].started =>
             /\ hist[r].session = <<DOWNLOADS_DIR, Strftime(hist[r].start)>>
             /\ hist[r].session \in dirs

\* a request failed with 400 (its tool's "Apple Music" directory is still
\* there) and a later one, answered with 200, used a session directory of its
\* own under the original downloads root
C1_Witness ==
    \E r, s \in Requests :
       /\ r # s
       /\ req[r].pc = "done" /\ hist[r].started
       /\ (hist[r].session \o <<AppleMusic, SongBC>>) \in DOMAIN fs
       /\ resp.to = s /\ resp.status = 200
       /\ hist[s].session = <<DOWNLOADS_DIR, Strftime(hist[s].start)>>
       /\ hist[s].session # hist[r].session
       /\ cwd = ServiceDir

\* C2: of two requests in progress at the same time, the tool of each runs in
\* that request's own session directory and never in the session directory
\* of the other.
C2_Claim ==
    \A r, s \in Requests :
       (r # s /\ {r, s} \in overlap /\ req[r].pc = "invoked" /\ hist[s].started)
          => /\ req[r].tool_cwd = hist[r].session
             /\ req[r].tool_cwd # hist[s].session

\* the list the claim expects: one entry per enumerated file, in order
ExpectedFiles(paths) ==
    [i \in 1..Len(paths) |-> FileInfo(Last(paths[i]), resp.timestamp, SpaceUrl(environ))]

\* C3: after exit status zero with at least one non-cookie file enumerated
\* (and no I/O fault during the copies), the answer is a success whose files
\* list has exactly one entry per enumerated file, top-level files included,
\* each with the URL base + "/files/" + timestamp + "/" + quoted filename.
C3_Claim ==
    (Answered /\ resp.rc = 0 /\ resp.walked /\ resp.all_files # <<>> /\ resp.io_fail = {})
       => /\ resp.status = 200
          /\ resp.files = ExpectedFiles(resp.all_files)

\* C4: after exit status zero with nothing but cookies.txt in the session
\* directory, the request fails with status 400 and no File Info entries.
C4_Claim ==
    (Answered /\ resp.rc = 0 /\ resp.walked /\ resp.all_files = <<>>)
       => /\ resp.status = 400
          /\ resp.files = <<>>

\* C5: after a success the session directory holds the flattened files and
\* neither cookies.txt nor a directory named "Apple Music".
C5_Claim ==
    (Answered /\ resp.status = 200)
       => /\ \A i \in 1..Len(resp.files) :
                (resp.session \o <<resp.files[i].filename>>) \in DOMAIN fs
          /\ (resp.session \o <<CookiesTxt>>) \notin DOMAIN fs
          /\ \A d \in dirs : Under(resp.session, d) => Last(d) # AppleMusic

\* C6: a handler whose tool exited with a non-zero status answers 400 with
\* stderr as the detail, or stdout when stderr is empty; it enumerates
\* nothing, returns no files and leaves files and directories as they were.
C6_NonZeroExit ==
    [][\A r \in Requests :
          (req[r].pc = "exited" /\ req[r].rc # 0 /\ req'[r].pc = "done")
             => /\ resp'.to = r
                /\ resp'.status = 400
                /\ req[r].stderr # "" =>
                      resp'.detail = <<"Failed to download: ", req[r].stderr>>
                /\ (req[r].stderr = "" /\ req[r].stdout # "") =>
                      resp'.detail = <<"Failed to download: ", req[r].stdout>>
                /\ resp'.files = <<>>
                /\ ~resp'.walked
                /\ fs' = fs
                /\ dirs' = dirs]_vars

\* a 400 whose detail is the captured stdout, with the tool's "Apple Music"
\* directory still in the session directory
C6_Witness ==
    /\ Answered /\ resp.status = 400
    /\ resp.detail = <<"Failed to download: ", "out">>
    /\ \E d \in dirs : Under(resp.session, d) /\ Last(d) = AppleMusic

\* the text after the first marker, without one closing quote
Payload(b) ==
    LET a == AfterMarker(b)
    IN  IF a # <<>> /\ Last(a) = "\"" THEN SubSeq(a, 1, Len(a) - 1) ELSE a

\* C7: for every blob with the marker, env_to_cookies writes exactly the
\* payload (text after the first marker, without the closing quote) with each
\* \n escape turned into a line break.
C7_Claim ==
    (cres.state = "direct" /\ HasMarker(blob))
       => /\ cres.ok
          /\ target = FileOf(ReplaceEscapes(Payload(blob)))

\* C8: for a blob without the marker, env_to_cookies fails with the format
\* error and the target file is as before: absent if it was absent, same
\* content if it was there.
C8_NoMarker ==
    [][(cres.state = "none" /\ cres'.state = "direct" /\ ~HasMarker(blob))
          => /\ ~cres'.ok
             /\ cres'.error = "Error converting to cookie file: Invalid env content format"
             /\ target' = target]_vars

\* a failed conversion of a blob without the marker next to an existing file
C8_Witness ==
    /\ cres.state = "direct" /\ ~cres.ok
    /\ ~HasMarker(blob) /\ blob # <<>>
    /\ target = FileOf(OldContent)

\* C9: a copy that fails only drops that candidate: the others are copied
\* and listed, in order; the request succeeds when at least one copy went
\* through and fails with "Failed to process any files" only when all failed.
C9_SkipFailedCopies ==
    (Answered /\ resp.walked /\ resp.all_files # <<>>)
       => LET copied == SelectSeq(resp.all_files, LAMBDA p : p \notin resp.failed)
          IN  /\ resp.failed = {p \in Range(resp.all_files) :
                                   Len(p) = 1 \/ p \in resp.io_fail}
              /\ copied # <<>> =>
                    /\ resp.status = 200
                    /\ resp.files = ExpectedFiles(copied)
                    /\ \A i \in 1..Len(copied) :
                          (resp.session \o <<Last(copied[i])>>) \in DOMAIN fs
              /\ copied = <<>> =>
                    /\ resp.status = 500
                    /\ resp.detail = <<"Error: ", "Failed to process any files">>
                    /\ resp.files = <<>>

\* a success in which an earlier candidate failed with an I/O fault and a
\* later one was copied
C9_Witness ==
    /\ Answered /\ resp.status = 200
    /\ \E i, j \in 1..Len(resp.all_files) :
          /\ i < j
          /\ resp.all_files[i] \in resp.io_fail
          /\ resp.all_files[j] \notin resp.failed

====
